---------------------------- MODULE Spec2Model ----------------------------
(***************************************************************************)
(* A model of src/progly/run-query.cc: the command-line query driver of    *)
(* skyhookdb-ceph.  main() validates the arguments, builds the list of     *)
(* target objects, starts wthreads workers and dispatches one asynchronous *)
(* read (or remote "query_op" exec) per object with at most qdepth         *)
(* outstanding; the storage client's callback handle_cb queues each        *)
(* completion on ready_ios; the workers take completions off the queue,    *)
(* evaluate the query on the payload and append a timing record.           *)
(*                                                                         *)
(* Conventions of the model.                                               *)
(*  - A mutex-protected critical section is one action: the lock is taken, *)
(*    the section runs and the lock is released (or handed to a condition  *)
(*    variable wait) within the action.  Everything between two critical   *)
(*    sections of one thread that touches shared state is its own action.  *)
(*  - doubles are integers (prices in whole units, discounts in 1/100).    *)
(*  - getns() clock readings are not modelled; a timing record keeps the   *)
(*    object it belongs to and the two server-side values read_ns, eval_ns.*)
(*  - a bufferlist is a sequence of chunks: encoded u64 words, fixed-layout*)
(*    rows (141 bytes), projected rows (8 bytes), encoded flatbuffers.     *)
(***************************************************************************)
EXTENDS Integers, Sequences, FiniteSets, TLC

\* ------------------------------------------------------------------ bounds
\* largest --num-objs, --wthreads, --qdepth of the concurrency runs
MaxObjs == 2
MaxWthreads == 2
MaxQdepth == 2
\* largest number of rows in a stored object, of flatbuffers in a stored
\* object, and of rows in one flatbuffer
MaxRows == 2
MaxFrames == 2
MaxFbRows == 2

\* ------------------------------------------------------- program constants
\* row sizes chosen by worker(): the stored layout and the projected layout
ROW_SIZE == 141
PROJECTED_ROW_SIZE == 8
\* an encoded uint64_t / size_t
U64_SIZE == 8

\* defaults of the query parameters (the values that mean "not given")
EXTENDED_PRICE_DEFAULT == 0
ORDER_KEY_DEFAULT == 0
LINE_NUMBER_DEFAULT == 0
SHIP_DATE_DEFAULT == -9999
DISCOUNT_DEFAULT == -999900
QUANTITY_DEFAULT == 0

\* -------------------------------------------------------------------- rows
\* One row of the fixed layout: the fields worker() reads at the offsets
\* order_key 0, line_number 12, quantity 16, extended_price 24, discount 32,
\* ship_date 50, comment 97 (44 bytes, NUL padded).
MkRow(ok, ln, qty, ep, disc, sd, cm) ==
    [order_key |-> ok, line_number |-> ln, quantity |-> qty,
     extended_price |-> ep, discount |-> disc, ship_date |-> sd, comment |-> cm]

NUL == "NUL"

\* the rows stored objects are made of
RowA == MkRow(7, 1, 10, 100, 6, 100, <<"a", "b", NUL, "b">>)
RowB == MkRow(7, 2, 10, 75, 6, 200, <<"c", NUL, "b">>)
RowC == MkRow(5, 1, 10, 50, 5, 150, <<NUL, "b">>)
RowD == MkRow(7, 1, 29, 80, 8, 199, <<"b">>)
RowPool == {RowA, RowB, RowC, RowD}

\* std::find(buffer, buffer + buffer_size, 0): index of the first NUL, or
\* Len + 1 when there is none
RECURSIVE FirstNul(_, _)
FirstNul(buf, i) ==
    IF i > Len(buf) THEN i
    ELSE IF buf[i] = NUL THEN i ELSE FirstNul(buf, i + 1)

string_ncopy(buffer) == SubSeq(buffer, 1, FirstNul(buffer, 1) - 1)

\* RE2::PartialMatch for a pattern without metacharacters: the pattern
\* occurs somewhere in the text
PartialMatch(text, re) ==
    \E i \in 0..(Len(text) - Len(re)) : SubSeq(text, i + 1, i + Len(re)) = re

\* ------------------------------------------------------------- bufferlists
U64Chunk(v) == [t |-> "u64", v |-> v]
RowChunk(r) == [t |-> "row", row |-> r]
\* a row the server projected to (order_key, line_number)
ProjChunk(r) == [t |-> "prow", row |-> [order_key |-> r.order_key,
                                        line_number |-> r.line_number]]
\* an encoded bufferlist holding one flatbuffer of nrows rows
FbChunk(n) == [t |-> "fb", nrows |-> n]
\* an encoded bufferlist holding a sequence of encoded flatbuffers
WrappedChunk(bls) == [t |-> "wrapped", bls |-> bls]

ChunkBytes(c) ==
    CASE c.t = "u64" -> U64_SIZE
      [] c.t = "row" -> ROW_SIZE
      [] c.t = "prow" -> PROJECTED_ROW_SIZE

\* bufferlist::length()
RECURSIVE BlLength(_)
BlLength(bl) ==
    IF bl = <<>> THEN 0 ELSE ChunkBytes(Head(bl)) + BlLength(Tail(bl))


\* the i-th row of a payload read at stride row_size: rows + rid * row_size
\* (payloads are whole rows of one layout, so row rid is chunk rid + 1)
RowAt(bl, rid) == bl[rid + 1].row

\* a plain store where the addition was meant
StoresCount(counter, n) == n
\* std::atomic<unsigned>::operator+= (one indivisible read-modify-write).
\* The counters are 32 bits wide and wrap at 2^32 rows; the objects modelled
\* here hold a handful of rows, so the sum is never reduced.
AtomicAdd(counter, n) == counter + n

\* --------------------------------------------------------------- variables
VARIABLES
    opt,              \* the parsed command line (po::notify), never changed
    projection,       \* static bool projection (set by the flatbuf branch)
    fastpath,         \* static bool fastpath
    objects,          \* the pool: stored bytes of obj.0 .. obj.{num_objs-1}
    faults,           \* the pool: the objects whose requests fail
    pc,               \* where main() is
    exit_status,      \* "running", or how the process ended
    target_objects,   \* static std::vector<std::string> target_objects
    outstanding_ios,  \* static int outstanding_ios
    ready_ios,        \* static std::list<AioState*> ready_ios
    stop,             \* static bool stop
    timings,          \* static std::vector<timing> timings
    result_count,     \* static std::atomic<unsigned> result_count
    rows_returned,    \* static std::atomic<unsigned> rows_returned
    nrows_processed,  \* static std::atomic<unsigned> nrows_processed
    aio,              \* requests the storage client holds, not yet called back
    cb_notify,        \* callbacks between work_lock.unlock() and notify_one()
    wk,               \* the worker threads: position and locals of each
    joined,           \* threads main() has joined
    oid,              \* main(): the object popped for the next request
    submits,          \* history: aio_read / aio_exec calls made per object
    bi_execs,         \* history: "build_index" execs made per object
    cb_order          \* history: objects in the order handle_cb queued them

vars == <<opt, projection, fastpath, objects, faults, pc, exit_status,
          target_objects,
          outstanding_ios, ready_ios, stop, timings, result_count,
          rows_returned, nrows_processed, aio, cb_notify, wk, joined,
          oid, submits, bi_execs, cb_order>>

Queries == {"a", "b", "c", "d", "e", "f", "fastpath", "flatbuf"}
FixedRowQueries == Queries \ {"flatbuf"}
Oids == 0..(opt.num_objs - 1)
Workers == 1..opt.wthreads

\* a thread that holds no completion
NoState == [oid |-> -1, bl |-> <<>>]
NoTimes == [oid |-> -1, read_ns |-> 0, eval_ns |-> 0]
IdleWorker(p) ==
    [pc |-> p, s |-> NoState, times |-> NoTimes, bl |-> <<>>,
     num_rows |-> 0, rid |-> 0]

\* -------------------------------------------------------------- evaluation
\* the test of query e with the upper ship date let in
QueryETestClosedRange(row) ==
    /\ row.ship_date >= opt.ship_date_low
    /\ row.ship_date <= opt.ship_date_high
    /\ row.discount > opt.discount_low
    /\ row.discount < opt.discount_high
    /\ row.quantity < opt.quantity
\* the three nested if-conditions of the row loop of query e
QueryETest(row) ==
    /\ row.ship_date >= opt.ship_date_low
    /\ row.ship_date < opt.ship_date_high
    /\ row.discount > opt.discount_low
    /\ row.discount < opt.discount_high
    /\ row.quantity < opt.quantity

\* The test each fixed-row query applies to a full row when the client
\* filters: the if-conditions of worker()'s row loops.
RowPasses(q, row) ==
    CASE q \in {"a", "b"} -> row.extended_price > opt.extended_price
      [] q = "c" -> row.extended_price = opt.extended_price
      [] q = "d" -> /\ row.order_key = opt.order_key
                    /\ row.line_number = opt.line_number
      [] q = "e" -> QueryETest(row)
      [] q = "f" -> PartialMatch(string_ncopy(row.comment), opt.comment_regex)
      [] q = "fastpath" -> TRUE

\* the row loop counts a row without testing it
CountsEveryRow(q, row) == TRUE
\* Whether the row loop of query q counts this row.  With projection and
\* use_cls every returned row is counted; fastpath counts every row.
CountsRow(q, row) ==
    IF q = "fastpath" \/ (q # "a" /\ projection /\ opt.use_cls)
    THEN TRUE
    ELSE RowPasses(q, row)

\* size_t row_size: 8 when the server projected, 141 otherwise
RowSize == IF projection /\ opt.use_cls THEN PROJECTED_ROW_SIZE ELSE ROW_SIZE

\* ::decode(uint64_t&, it) at chunk position i: the value, or -1 for the
\* buffer::error thrown when the bytes are not there
DecodeU64(bl, i) ==
    IF i <= Len(bl) /\ bl[i].t = "u64" THEN bl[i].v ELSE -1

\* ::decode(bufferlist&, it) of a wrapped sequence of flatbuffers
DecodeWrapped(bl, i) ==
    IF i <= Len(bl) /\ bl[i].t = "wrapped" THEN bl[i].bls ELSE <<>>
DecodesWrapped(bl, i) == i <= Len(bl) /\ bl[i].t = "wrapped"

\* the bufferlist worker() evaluates a fixed-row query on: the local bl is
\* assigned from s->bl only when use_cls is false; with use_cls the prefix
\* is decoded from s->bl and bl is left as constructed, empty
FixedRowLocalBl(sbl) == IF opt.use_cls THEN <<>> ELSE sbl

\* ------------------------------------------------- the storage collaborator
\* Rows of a stored object
RECURSIVE MatchingRows(_, _)
MatchingRows(q, bl) ==
    IF bl = <<>> THEN <<>>
    ELSE IF RowPasses(q, Head(bl).row)
         THEN <<Head(bl)>> \o MatchingRows(q, Tail(bl))
         ELSE MatchingRows(q, Tail(bl))

RECURSIVE Projected(_)
Projected(bl) ==
    IF bl = <<>> THEN <<>>
    ELSE <<ProjChunk(Head(bl).row)>> \o Projected(Tail(bl))

\* server-side timing values of a reply (any values; the same for every
\* reply)
SERVER_READ_NS == 5
SERVER_EVAL_NS == 3

RECURSIVE FbRows(_)
FbRows(bls) == IF bls = <<>> THEN 0 ELSE Head(bls).nrows + FbRows(Tail(bls))

\* The reply of the "query_op" method of class "tabular" for one object:
\* read_ns, eval_ns, nrows_server_processed, then the count of matching rows
\* (query a), the matching rows, projected when asked, or the wrapped
\* flatbuffers (query flatbuf).
QueryOpReply(q, proj, stored) ==
    IF q = "flatbuf"
    THEN <<U64Chunk(SERVER_READ_NS), U64Chunk(SERVER_EVAL_NS),
           U64Chunk(FbRows(stored)), WrappedChunk(stored)>>
    ELSE <<U64Chunk(SERVER_READ_NS), U64Chunk(SERVER_EVAL_NS),
           U64Chunk(Len(stored))>>
         \o (IF q = "a" THEN <<U64Chunk(Len(MatchingRows(q, stored)))>>
             ELSE IF proj THEN Projected(MatchingRows(q, stored))
             ELSE MatchingRows(q, stored))

\* what the completion of the request for object o carries in s->bl
Payload(o) ==
    IF opt.use_cls THEN QueryOpReply(opt.query, projection, objects[o])
    ELSE objects[o]

\* processSkyFb followed by getSkyRootHeader: a projection keeps every row
TransformedRows(nrows) == nrows

\* the columns of Tables::lineitem_test_schema_string a projection may name
KnownCols == {"order_key", "line_number", "quantity", "extended_price",
              "discount", "ship_date", "comment"}
\* Tables::getSchemaFromProjectCols: the named columns the table has
getSchemaFromProjectCols(names) == SelectSeq(names, LAMBDA n : n \in KnownCols)

\* ------------------------------------------------------------------ inputs
\* no request fails
NoFaults == [submit |-> {}, complete |-> {}, exec |-> {}]

\* A command line that passes every check of query b: one object, one
\* worker, queue depth one.
BaseOpt ==
    [num_objs |-> 1, wthreads |-> 1, qdepth |-> 1, build_index |-> FALSE,
     dir |-> "fwd", query |-> "b", use_cls |-> FALSE, use_index |-> FALSE,
     projection |-> FALSE, extra_row_cost |-> 0,
     extended_price |-> 75, order_key |-> 7, line_number |-> 1,
     ship_date_low |-> 100, ship_date_high |-> 200,
     discount_low |-> 5, discount_high |-> 8, quantity |-> 30,
     comment_regex |-> <<"b">>, projected_col_names |-> <<"*">>]

\* BaseOpt with every query parameter left at its default
DefaultParams ==
    [BaseOpt EXCEPT !.extended_price = EXTENDED_PRICE_DEFAULT,
                    !.order_key = ORDER_KEY_DEFAULT,
                    !.line_number = LINE_NUMBER_DEFAULT,
                    !.ship_date_low = SHIP_DATE_DEFAULT,
                    !.ship_date_high = SHIP_DATE_DEFAULT,
                    !.discount_low = DISCOUNT_DEFAULT,
                    !.discount_high = DISCOUNT_DEFAULT,
                    !.quantity = QUANTITY_DEFAULT,
                    !.comment_regex = <<>>]

\* the parameter settings tried: all given, all left out, one left out, and
\* a quantity bound equal to the quantity of a stored row
ParamChoices ==
    {BaseOpt, DefaultParams, [BaseOpt EXCEPT !.quantity = RowA.quantity],
     [BaseOpt EXCEPT !.extended_price = EXTENDED_PRICE_DEFAULT],
     [BaseOpt EXCEPT !.order_key = ORDER_KEY_DEFAULT],
     [BaseOpt EXCEPT !.line_number = LINE_NUMBER_DEFAULT],
     [BaseOpt EXCEPT !.ship_date_low = SHIP_DATE_DEFAULT],
     [BaseOpt EXCEPT !.ship_date_high = SHIP_DATE_DEFAULT],
     [BaseOpt EXCEPT !.discount_low = DISCOUNT_DEFAULT],
     [BaseOpt EXCEPT !.discount_high = DISCOUNT_DEFAULT],
     [BaseOpt EXCEPT !.quantity = QUANTITY_DEFAULT],
     [BaseOpt EXCEPT !.comment_regex = <<>>]}

ColNameChoices == {<<"*">>, <<"order_key", "line_number">>, <<"nosuchcol">>}

\* sequences over S of length at most n
RECURSIVE SeqsUpTo(_, _)
SeqsUpTo(S, n) ==
    IF n = 0 THEN {<<>>}
    ELSE LET shorter == SeqsUpTo(S, n - 1)
         IN shorter \cup {Append(q, x) : q \in shorter, x \in S}

RowObjects == SeqsUpTo({RowChunk(r) : r \in RowPool}, MaxRows)
FbObjects == SeqsUpTo({FbChunk(n) : n \in 1..MaxFbRows}, MaxFrames)

\* the stored object the concurrency runs and the argument runs read
FixedRows ==
    [i \in 0..(MaxObjs - 1) |->
        IF i % 2 = 0 THEN <<RowChunk(RowA)>> ELSE <<RowChunk(RowB)>>]
FixedFbs == [i \in 0..(MaxObjs - 1) |-> <<FbChunk(1)>>]
FixedObjects(o) ==
    [i \in 0..(o.num_objs - 1) |->
        IF o.query = "flatbuf" THEN FixedFbs[i] ELSE FixedRows[i]]

\* Argument runs: every query tag (and an unknown one), every combination
\* of the four switches, each parameter setting; and command lines main()
\* rejects before it looks at the query.
ArgOpts ==
    {[p EXCEPT !.query = q, !.use_cls = c, !.use_index = i,
               !.projection = pr, !.build_index = b]
       : p \in ParamChoices, q \in Queries \cup {"zzz"},
         c \in BOOLEAN, i \in BOOLEAN, pr \in BOOLEAN, b \in BOOLEAN}
    \cup {[BaseOpt EXCEPT !.query = "flatbuf", !.projected_col_names = n,
                          !.use_cls = c]
            : n \in ColNameChoices, c \in BOOLEAN}
    \cup {[BaseOpt EXCEPT !.num_objs = 0], [BaseOpt EXCEPT !.wthreads = 0],
          [BaseOpt EXCEPT !.qdepth = 0], [BaseOpt EXCEPT !.dir = "xyz"]}
ArgRuns ==
    {[opt |-> o, objects |-> FixedObjects(o), faults |-> NoFaults]
       : o \in ArgOpts}

\* Evaluation runs: one object of any content, one worker, every query, with
\* and without pushdown and projection.
EvalRuns ==
    {[opt |-> [BaseOpt EXCEPT !.query = q, !.use_cls = c, !.projection = pr,
                              !.extra_row_cost = x],
      objects |-> [i \in {0} |-> ob], faults |-> NoFaults]
       : q \in FixedRowQueries \ {"fastpath"}, c \in BOOLEAN, pr \in BOOLEAN,
         x \in {0, 1}, ob \in RowObjects}
    \cup {[opt |-> [BaseOpt EXCEPT !.query = "fastpath", !.use_cls = c],
           objects |-> [i \in {0} |-> ob], faults |-> NoFaults]
            : c \in BOOLEAN, ob \in RowObjects}
    \cup {[opt |-> [BaseOpt EXCEPT !.query = "flatbuf", !.use_cls = c,
                                   !.projected_col_names = n],
           objects |-> [i \in {0} |-> ob], faults |-> NoFaults]
            : c \in BOOLEAN, n \in ColNameChoices \ {<<"nosuchcol">>},
              ob \in FbObjects}

\* Concurrency runs: up to MaxObjs objects, MaxWthreads workers and a queue
\* depth up to MaxQdepth; rows read forwards (query b) and pushdown replies
\* read backwards (query flatbuf).
RowPipeOpts ==
    {[BaseOpt EXCEPT !.num_objs = n, !.wthreads = w, !.qdepth = d]
       : n \in 1..MaxObjs, w \in 1..MaxWthreads, d \in 1..MaxQdepth}
FbPipeOpts ==
    {[o EXCEPT !.dir = "bwd", !.query = "flatbuf", !.use_cls = TRUE]
       : o \in RowPipeOpts}
PipeOpts == RowPipeOpts \cup FbPipeOpts
\* Order runs: MaxObjs objects in every order, one worker
OrderOpts ==
    {[BaseOpt EXCEPT !.num_objs = MaxObjs, !.dir = dr, !.qdepth = d]
       : dr \in {"fwd", "bwd", "rnd"}, d \in 1..MaxQdepth}
PipeRuns ==
    {[opt |-> o, objects |-> FixedObjects(o), faults |-> NoFaults]
       : o \in PipeOpts \cup OrderOpts}

\* Fault runs: one worker, and one object's request fails: at submission
\* or at completion of a query run, or in the index builder
FaultRuns ==
    {[opt |-> [BaseOpt EXCEPT !.num_objs = MaxObjs, !.qdepth = d,
                              !.build_index = (k = "exec")],
      objects |-> FixedRows, faults |-> [NoFaults EXCEPT ![k] = {x}]]
       : d \in 1..MaxQdepth, k \in {"submit", "complete", "exec"},
         x \in 0..(MaxObjs - 1)}

Runs == ArgRuns \cup EvalRuns \cup PipeRuns \cup FaultRuns
\* the runs followed to their end under fair scheduling: the argument and
\* fault runs and the concurrency runs of query b at the largest queue depth
FairRuns ==
    ArgRuns \cup FaultRuns
    \cup {[opt |-> o, objects |-> FixedObjects(o), faults |-> NoFaults]
            : o \in {p \in RowPipeOpts : p.qdepth = MaxQdepth}}

\* the state main() starts in, for one of the given runs
InitOf(runs) ==
    /\ \E r \in runs :
        opt = r.opt /\ objects = r.objects /\ faults = r.faults
    /\ projection = opt.projection
    /\ fastpath = FALSE
    /\ pc = "args"
    /\ exit_status = "running"
    /\ target_objects = <<>>
    /\ outstanding_ios = 0
    /\ ready_ios = <<>>
    /\ stop = FALSE
    /\ timings = <<>>
    /\ result_count = 0
    /\ rows_returned = 0
    /\ nrows_processed = 0
    /\ aio = {}
    /\ cb_notify = 0
    /\ wk = <<>>
    /\ joined = 0
    /\ oid = -1
    /\ submits = [o \in Oids |-> 0]
    /\ bi_execs = [o \in Oids |-> 0]
    /\ cb_order = <<>>
Init == InitOf(Runs)
FairInit == InitOf(FairRuns)

Running == exit_status = "running"

\* -------------------------------------------------------------------- main
\* assert failure, failed checkret, or an exception no one catches
Abort ==
    /\ exit_status' = "abort"
    /\ UNCHANGED <<opt, projection, fastpath, objects, faults, pc,
                   target_objects, outstanding_ios, ready_ios, stop, timings,
                   result_count, rows_returned, nrows_processed, aio,
                   cb_notify, wk, joined, oid, submits, bi_execs, cb_order>>

\* the vector left as built
Unreversed(q) == q
\* std::reverse
RECURSIVE Reverse(_)
Reverse(q) == IF q = <<>> THEN <<>> ELSE Append(Reverse(Tail(q)), Head(q))

\* the orders of the elements of a set (std::random_shuffle may produce any)
RECURSIVE Perms(_)
Perms(S) ==
    IF S = {} THEN {<<>>}
    ELSE UNION {{Append(p, x) : p \in Perms(S \ {x})} : x \in S}

\* target_objects after the loop that names obj.0 .. obj.{num_objs-1}
BuiltTargets == [i \in 1..opt.num_objs |-> i - 1]

\* the orders --dir leaves target_objects in (none: assert(0))
DirOrders(dir) ==
    CASE dir = "fwd" -> {Reverse(BuiltTargets)}
      [] dir = "bwd" -> {BuiltTargets}
      [] dir = "rnd" -> Perms({BuiltTargets[i] : i \in 1..opt.num_objs})
      [] OTHER -> {}

\* main() from the option parser to the traversal order: the three asserts
\* on the counts, the target list, the direction
MainSetup ==
    /\ Running /\ pc = "args"
    /\ IF opt.num_objs > 0 /\ opt.wthreads > 0 /\ opt.qdepth > 0
          /\ DirOrders(opt.dir) # {}
       THEN /\ \E t \in DirOrders(opt.dir) : target_objects' = t
            /\ pc' = IF opt.build_index THEN "build_index" ELSE "check"
            /\ UNCHANGED <<opt, projection, fastpath, objects, faults,
                           exit_status, outstanding_ios, ready_ios, stop,
                           timings, result_count, rows_returned,
                           nrows_processed, aio, cb_notify, wk, joined, oid,
                           submits, bi_execs, cb_order>>
       ELSE Abort

\* the asserts of each branch of "sanity check queries against provided
\* parameters"
\* the use_index assert left out of the branches of queries a, b and c
ExtendedPriceAssertsAnyIndex == opt.extended_price # EXTENDED_PRICE_DEFAULT
\* queries a, b and c
ExtendedPriceAsserts ==
    /\ ~opt.use_index
    /\ opt.extended_price # EXTENDED_PRICE_DEFAULT
\* the line_number assert left out of the branch of query d
QueryDAssertsAnyLine ==
    /\ (opt.use_index => opt.use_cls)
    /\ opt.order_key # ORDER_KEY_DEFAULT
QueryDAsserts ==
    /\ (opt.use_index => opt.use_cls)
    /\ opt.order_key # ORDER_KEY_DEFAULT
    /\ opt.line_number # LINE_NUMBER_DEFAULT
QueryEAsserts ==
    /\ ~opt.use_index
    /\ opt.ship_date_low # SHIP_DATE_DEFAULT
    /\ opt.ship_date_high # SHIP_DATE_DEFAULT
    /\ opt.discount_low # DISCOUNT_DEFAULT
    /\ opt.discount_high # DISCOUNT_DEFAULT
    /\ opt.quantity # QUANTITY_DEFAULT
QueryFAsserts == ~opt.use_index /\ opt.comment_regex # <<>>
FastpathAsserts == ~opt.use_index /\ ~opt.projection
\* flatbuf: the query schema built from the projected columns is not empty
FlatbufAsserts ==
    \/ opt.projected_col_names = <<"*">>
    \/ getSchemaFromProjectCols(opt.projected_col_names) # <<>>

AssertsOrAbort(asserts) == IF asserts THEN "ok" ELSE "abort"

\* the chain of branches on the query tag: "ok" when every assert of the
\* query's branch holds, "abort" when one fails, "exit1" for a tag no branch
\* names
SanityCheck ==
    CASE opt.query \in {"a", "b", "c"} -> AssertsOrAbort(ExtendedPriceAsserts)
      [] opt.query = "d" -> AssertsOrAbort(QueryDAsserts)
      [] opt.query = "e" -> AssertsOrAbort(QueryEAsserts)
      [] opt.query = "f" -> AssertsOrAbort(QueryFAsserts)
      [] opt.query = "fastpath" -> AssertsOrAbort(FastpathAsserts)
      [] opt.query = "flatbuf" -> AssertsOrAbort(FlatbufAsserts)
      [] OTHER -> "exit1"

\* the flatbuf branch sets fastpath when all columns are asked for
\* (apply_predicates is false), projection otherwise
SetsFastpath == opt.query = "flatbuf" /\ opt.projected_col_names = <<"*">>
SetsProjection == opt.query = "flatbuf" /\ opt.projected_col_names # <<"*">>

MainSanityCheck ==
    /\ Running /\ pc = "check"
    /\ IF SanityCheck = "ok"
       THEN /\ pc' = "spawn"
            /\ fastpath' = (fastpath \/ SetsFastpath)
            /\ projection' = (projection \/ SetsProjection)
            /\ UNCHANGED exit_status
       ELSE /\ exit_status' = SanityCheck
            /\ UNCHANGED <<pc, fastpath, projection>>
    /\ UNCHANGED <<opt, objects, faults, target_objects, outstanding_ios,
                   ready_ios,
                   stop, timings, result_count, rows_returned,
                   nrows_processed, aio, cb_notify, wk, joined, oid, submits,
                   bi_execs, cb_order>>

\* counters and flags are reset and the worker threads started; main then
\* takes dispatch_lock
MainSpawn ==
    /\ Running /\ pc = "spawn"
    /\ result_count' = 0 /\ rows_returned' = 0 /\ nrows_processed' = 0
    /\ outstanding_ios' = 0 /\ stop' = FALSE
    /\ wk' = [w \in Workers |-> IdleWorker("lock")]
    /\ pc' = "fill"
    /\ UNCHANGED <<opt, projection, fastpath, objects, faults, exit_status,
                   target_objects, ready_ios, timings, aio, cb_notify,
                   joined, oid, submits, bi_execs, cb_order>>
\* ---------------------------------------------------------- dispatch loop
\* the slot test left out of the dispatch loop
HasSlotAlways(n) == TRUE
\* the slot test off by one: one submission more than qdepth
HasSlotInclusive(n) == n <= opt.qdepth
\* while (outstanding_ios < qdepth)
HasSlot(n) == n < opt.qdepth

\* target_objects.back(), target_objects.pop_back()
Back(q) == q[Len(q)]
\* back() without pop_back(): the target stays on the list
PopBackKept(q) == q
\* target_objects.pop_back()
PopBack(q) == SubSeq(q, 1, Len(q) - 1)

\* main() is about to run the loop test with dispatch_lock held: on entry
\* (line 797), after lock.lock() and outstanding_ios++ that follow a
\* submission (lines 846-847), or when dispatch_cond.wait returns
AtLoopTest == pc \in {"fill", "relock", "woken"}
\* the loop test without the outstanding_ios++ of line 847
CountedWithoutIncrement == outstanding_ios
\* outstanding_ios as the loop test sees it
Counted == IF pc = "relock" THEN outstanding_ios + 1 ELSE outstanding_ios

\* a slot and a target: pop the target and release the lock to submit
MainTake ==
    /\ Running /\ AtLoopTest
    /\ HasSlot(Counted) /\ target_objects # <<>>
    /\ outstanding_ios' = Counted
    /\ oid' = Back(target_objects)
    /\ target_objects' = PopBack(target_objects)
    /\ pc' = "submit"
    /\ UNCHANGED <<opt, projection, fastpath, objects, faults, exit_status,
                   ready_ios, stop, timings, result_count, rows_returned,
                   nrows_processed, aio, cb_notify, wk, joined, submits,
                   bi_execs, cb_order>>

\* no slot, targets left: dispatch_cond.wait(lock)
MainWait ==
    /\ Running /\ AtLoopTest
    /\ ~HasSlot(Counted) /\ target_objects # <<>>
    /\ outstanding_ios' = Counted
    /\ pc' = "wait"
    /\ UNCHANGED <<opt, projection, fastpath, objects, faults, exit_status,
                   target_objects, ready_ios, stop, timings, result_count,
                   rows_returned, nrows_processed, aio, cb_notify, wk,
                   joined, oid, submits, bi_execs, cb_order>>

\* no target left: both loops break and the lock is released
MainBreak ==
    /\ Running /\ AtLoopTest
    /\ target_objects = <<>>
    /\ outstanding_ios' = Counted
    /\ pc' = "drain"
    /\ UNCHANGED <<opt, projection, fastpath, objects, faults, exit_status,
                   target_objects, ready_ios, stop, timings, result_count,
                   rows_returned, nrows_processed, aio, cb_notify, wk,
                   joined, oid, submits, bi_execs, cb_order>>

\* What the storage client returns for object o: from aio_read / aio_exec,
\* as the completion's return value, from exec of "build_index"
SubmitRet(o) == IF o \in faults.submit THEN -1 ELSE 0
CompletionRet(o) == IF o \in faults.complete THEN -1 ELSE 0
ExecRet(o) == IF o \in faults.exec THEN -1 ELSE 0

\* new AioState, aio_create_completion, aio_exec or aio_read, checkret
MainSubmit ==
    /\ Running /\ pc = "submit"
    /\ submits' = [submits EXCEPT ![oid] = @ + 1]
    /\ IF SubmitRet(oid) = 0
        THEN /\ aio' = aio \cup {[oid |-> oid, n |-> submits[oid]]}
             /\ pc' = "relock"
             /\ UNCHANGED exit_status
        ELSE /\ exit_status' = "abort"
             /\ UNCHANGED <<aio, pc>>
    /\ oid' = -1
    /\ UNCHANGED <<opt, projection, fastpath, objects, faults,
                   target_objects, outstanding_ios, ready_ios, stop, timings,
                   result_count, rows_returned, nrows_processed, cb_notify,
                   wk, joined, bi_execs, cb_order>>

\* the drain loop of lines 856-865 left without its test
DrainDoneUnchecked == TRUE
\* the drain loop gives up with one read still in flight
DrainDoneEarly == outstanding_ios <= 1
\* the test of the drain loop, made with dispatch_lock held
DrainDone == outstanding_ios = 0

\* "drain any still-in-flight operations": the loop is left when the
\* counter is zero (an iteration that finds it non-zero changes nothing)
MainDrain ==
    /\ Running /\ pc = "drain"
    /\ DrainDone
    /\ pc' = "stop"
    /\ UNCHANGED <<opt, projection, fastpath, objects, faults, exit_status,
                   target_objects, outstanding_ios, ready_ios, stop, timings,
                   result_count, rows_returned, nrows_processed, aio,
                   cb_notify, wk, joined, oid, submits, bi_execs, cb_order>>

\* work_lock.lock(); stop = true; work_lock.unlock()
MainStop ==
    /\ Running /\ pc = "stop"
    /\ stop' = TRUE
    /\ pc' = "notify_all"
    /\ UNCHANGED <<opt, projection, fastpath, objects, faults, exit_status,
                   target_objects, outstanding_ios, ready_ios, timings,
                   result_count, rows_returned, nrows_processed, aio,
                   cb_notify, wk, joined, oid, submits, bi_execs, cb_order>>

\* the threads blocked in work_cond.wait
Waiters == {w \in DOMAIN wk : wk[w].pc = "waiting"}
\* the threads work_cond.notify_all() wakes
NotifyAllWakes == Waiters

MainNotifyAll ==
    /\ Running /\ pc = "notify_all"
    /\ wk' = [w \in DOMAIN wk |->
                IF w \in NotifyAllWakes THEN [wk[w] EXCEPT !.pc = "lock"]
                ELSE wk[w]]
    /\ pc' = "join"
    /\ UNCHANGED <<opt, projection, fastpath, objects, faults, exit_status,
                   target_objects, outstanding_ios, ready_ios, stop, timings,
                   result_count, rows_returned, nrows_processed, aio,
                   cb_notify, joined, oid, submits, bi_execs, cb_order>>

\* thread.join() of the next thread, which has returned
MainJoin ==
    /\ Running /\ pc \in {"join", "bi_join"}
    /\ joined < opt.wthreads
    /\ wk[joined + 1].pc = "exited"
    /\ joined' = joined + 1
    /\ UNCHANGED <<opt, projection, fastpath, objects, faults, pc,
                   exit_status, target_objects, outstanding_ios, ready_ios,
                   stop, timings, result_count, rows_returned,
                   nrows_processed, aio, cb_notify, wk, oid, submits,
                   bi_execs, cb_order>>

\* every thread joined: the totals are printed, the log written, return 0
\* (after --build-index: return 0 at once)
MainReturn ==
    /\ Running /\ pc \in {"join", "bi_join"}
    /\ joined = opt.wthreads
    /\ pc' = IF pc = "join" THEN "done" ELSE "bi_done"
    /\ exit_status' = "exit0"
    /\ UNCHANGED <<opt, projection, fastpath, objects, faults,
                   target_objects, outstanding_ios, ready_ios, stop, timings,
                   result_count, rows_returned, nrows_processed, aio,
                   cb_notify, wk, joined, oid, submits, bi_execs, cb_order>>

\* a condition variable wait may return without a notification
MainSpuriousWake ==
    /\ Running /\ pc = "wait"
    /\ pc' = "woken"
    /\ UNCHANGED <<opt, projection, fastpath, objects, faults, exit_status,
                   target_objects, outstanding_ios, ready_ios, stop, timings,
                   result_count, rows_returned, nrows_processed, aio,
                   cb_notify, wk, joined, oid, submits, bi_execs, cb_order>>

\* ------------------------------------------------------------- build index
\* --build-index: wthreads threads run worker_build_index and are joined
MainBuildIndex ==
    /\ Running /\ pc = "build_index"
    /\ wk' = [w \in Workers |-> IdleWorker("bi_lock")]
    /\ pc' = "bi_join"
    /\ UNCHANGED <<opt, projection, fastpath, objects, faults, exit_status,
                   target_objects, outstanding_ios, ready_ios, stop, timings,
                   result_count, rows_returned, nrows_processed, aio,
                   cb_notify, joined, oid, submits, bi_execs, cb_order>>

\* worker_build_index, under work_lock: take the last target
BiTake(w) ==
    /\ Running /\ wk[w].pc = "bi_lock"
    /\ target_objects # <<>>
    /\ wk' = [wk EXCEPT ![w].pc = "bi_exec",
                        ![w].s = [oid |-> Back(target_objects), bl |-> <<>>]]
    /\ target_objects' = PopBack(target_objects)
    /\ UNCHANGED <<opt, projection, fastpath, objects, faults, pc,
                   exit_status, outstanding_ios, ready_ios, stop, timings,
                   result_count, rows_returned, nrows_processed, aio,
                   cb_notify, joined, oid, submits, bi_execs, cb_order>>

\* worker_build_index, under work_lock: no target left, the thread returns
BiBreak(w) ==
    /\ Running /\ wk[w].pc = "bi_lock"
    /\ target_objects = <<>>
    /\ wk' = [wk EXCEPT ![w] = IdleWorker("exited")]
    /\ UNCHANGED <<opt, projection, fastpath, objects, faults, pc,
                   exit_status, target_objects, outstanding_ios, ready_ios,
                   stop, timings, result_count, rows_returned,
                   nrows_processed, aio, cb_notify, joined, oid, submits,
                   bi_execs, cb_order>>

\* ioctx->exec(oid, "tabular", "build_index", ...); checkret(ret, 0)
BiExec(w) ==
    /\ Running /\ wk[w].pc = "bi_exec"
    /\ bi_execs' = [bi_execs EXCEPT ![wk[w].s.oid] = @ + 1]
    /\ IF ExecRet(wk[w].s.oid) = 0
        THEN /\ wk' = [wk EXCEPT ![w] = IdleWorker("bi_lock")]
             /\ UNCHANGED exit_status
        ELSE /\ exit_status' = "abort"
             /\ UNCHANGED wk
    /\ UNCHANGED <<opt, projection, fastpath, objects, faults, pc,
                   target_objects, outstanding_ios, ready_ios, stop, timings,
                   result_count, rows_returned, nrows_processed, aio,
                   cb_notify, joined, oid, submits, cb_order>>
\* --------------------------------------------------------------- handle_cb
\* push_front in place of push_back
PushFront(q, s) == <<s>> \o q
\* ready_ios.push_back(s)
PushBack(q, s) == Append(q, s)

\* the return value of the completion not looked at
ReturnValueUnchecked(ret) == TRUE
\* assert(s->c->get_return_value() >= 0)
ReturnValueOk(ret) == ret >= 0

\* The storage client completes a request: handle_cb asserts the return
\* value, then queues the AioState under work_lock.
CbComplete(r) ==
    /\ Running /\ r \in aio
    /\ IF ReturnValueOk(CompletionRet(r.oid))
        THEN /\ aio' = aio \ {r}
             /\ ready_ios' =
                  PushBack(ready_ios, [oid |-> r.oid, bl |-> Payload(r.oid)])
             /\ cb_order' = Append(cb_order, r.oid)
             /\ cb_notify' = cb_notify + 1
             /\ UNCHANGED exit_status
        ELSE /\ exit_status' = "abort"
             /\ UNCHANGED <<aio, ready_ios, cb_order, cb_notify>>
    /\ UNCHANGED <<opt, projection, fastpath, objects, faults, pc,
                   target_objects, outstanding_ios, stop, timings,
                   result_count, rows_returned, nrows_processed, wk, joined,
                   oid, submits, bi_execs>>

\* work_cond.notify_one(): one waiting thread, if there is one, is woken
CbNotify ==
    /\ Running /\ cb_notify > 0
    /\ cb_notify' = cb_notify - 1
    /\ \E w \in (IF Waiters = {} THEN {0} ELSE Waiters) :
        wk' = IF w = 0 THEN wk ELSE [wk EXCEPT ![w].pc = "lock"]
    /\ UNCHANGED <<opt, projection, fastpath, objects, faults, pc,
                   exit_status, target_objects, outstanding_ios, ready_ios,
                   stop, timings, result_count, rows_returned,
                   nrows_processed, aio, joined, oid, submits, bi_execs,
                   cb_order>>

\* ------------------------------------------------------------------ worker
\* The thread is about to run the loop test with work_lock held: at its
\* start, when work_cond.wait returns, or after lock.lock() and
\* timings.push_back(times) that end the evaluation of a completion.
AtLoopTop(w) == wk[w].pc \in {"lock", "append"}
\* timings.push_back(times) left out
NotAppended(w) == timings
Appended(w) ==
    IF wk[w].pc = "append" THEN Append(timings, wk[w].times) ELSE timings

\* the break taken on an empty queue alone
SeesStopAlways == TRUE
\* if (stop) break;
SeesStop == stop

\* ready_ios is empty and stop is set: the thread leaves the loop
WorkerExit(w) ==
    /\ Running /\ AtLoopTop(w)
    /\ ready_ios = <<>> /\ SeesStop
    /\ timings' = Appended(w)
    /\ wk' = [wk EXCEPT ![w] = IdleWorker("exited")]
    /\ UNCHANGED <<opt, projection, fastpath, objects, faults, pc,
                   exit_status, target_objects, outstanding_ios, ready_ios,
                   stop, result_count, rows_returned, nrows_processed, aio,
                   cb_notify, joined, oid, submits, bi_execs, cb_order>>

\* ready_ios is empty and stop is not set: work_cond.wait(lock)
WorkerWait(w) ==
    /\ Running /\ AtLoopTop(w)
    /\ ready_ios = <<>> /\ ~SeesStop
    /\ timings' = Appended(w)
    /\ wk' = [wk EXCEPT ![w] = IdleWorker("waiting")]
    /\ UNCHANGED <<opt, projection, fastpath, objects, faults, pc,
                   exit_status, target_objects, outstanding_ios, ready_ios,
                   stop, result_count, rows_returned, nrows_processed, aio,
                   cb_notify, joined, oid, submits, bi_execs, cb_order>>

\* pop_back() after front(): the newest record removed
PopNewest(q) == SubSeq(q, 1, Len(q) - 1)
\* the front record left on the queue
PopFrontKept(q) == q
\* ready_ios.pop_front()
PopFront(q) == Tail(q)

\* ready_ios.front(), ready_ios.pop_front(), lock.unlock()
WorkerPop(w) ==
    /\ Running /\ AtLoopTop(w)
    /\ ready_ios # <<>>
    /\ timings' = Appended(w)
    /\ wk' = [wk EXCEPT ![w] = [IdleWorker("release") EXCEPT
                                   !.s = Head(ready_ios)]]
    /\ ready_ios' = PopFront(ready_ios)
    /\ UNCHANGED <<opt, projection, fastpath, objects, faults, pc,
                   exit_status, target_objects, outstanding_ios, stop,
                   result_count, rows_returned, nrows_processed, aio,
                   cb_notify, joined, oid, submits, bi_execs, cb_order>>

WorkerSpuriousWake(w) ==
    /\ Running /\ wk[w].pc = "waiting"
    /\ wk' = [wk EXCEPT ![w].pc = "lock"]
    /\ UNCHANGED <<opt, projection, fastpath, objects, faults, pc,
                   exit_status, target_objects, outstanding_ios, ready_ios,
                   stop, timings, result_count, rows_returned,
                   nrows_processed, aio, cb_notify, joined, oid, submits,
                   bi_execs, cb_order>>

\* the slot given back twice, by the callback and by the worker
SlotReleasedTwice(n) == n - 2
\* the slot left taken by the worker
SlotKept(n) == n
\* outstanding_ios--
SlotReleased(n) == n - 1

\* dispatch_lock.lock(); outstanding_ios--; dispatch_lock.unlock()
WorkerRelease(w) ==
    /\ Running /\ wk[w].pc = "release"
    /\ outstanding_ios' = SlotReleased(outstanding_ios)
    /\ wk' = [wk EXCEPT ![w].pc = "notify"]
    /\ UNCHANGED <<opt, projection, fastpath, objects, faults, pc,
                   exit_status, target_objects, ready_ios, stop, timings,
                   result_count, rows_returned, nrows_processed, aio,
                   cb_notify, joined, oid, submits, bi_execs, cb_order>>

\* dispatch_cond.notify_one(): main() is woken if it waits
WorkerNotify(w) ==
    /\ Running /\ wk[w].pc = "notify"
    /\ pc' = IF pc = "wait" THEN "woken" ELSE pc
    /\ wk' = [wk EXCEPT ![w].pc = "unpack"]
    /\ UNCHANGED <<opt, projection, fastpath, objects, faults, exit_status,
                   target_objects, outstanding_ios, ready_ios, stop, timings,
                   result_count, rows_returned, nrows_processed, aio,
                   cb_notify, joined, oid, submits, bi_execs, cb_order>>

\* const size_t num_rows = bl.length() / row_size
NumRows(bl) == BlLength(bl) \div RowSize

\* the three values at the head of a pushdown reply decode
PrefixDecodes(sbl) ==
    /\ DecodeU64(sbl, 1) # -1
    /\ DecodeU64(sbl, 2) # -1
    /\ DecodeU64(sbl, 3) # -1

\* struct timing times = s->times, then read_ns and eval_ns from the reply
TimesOf(st) ==
    IF opt.use_cls
    THEN [oid |-> st.oid, read_ns |-> DecodeU64(st.bl, 1),
          eval_ns |-> DecodeU64(st.bl, 2)]
    ELSE [oid |-> st.oid, read_ns |-> 0, eval_ns |-> 0]

\* the loop left with its last iteration still to run
EvaluatingAllButLast(times, bl, n, rid) ==
    IF rid < n - 1
    THEN [pc |-> "eval", s |-> NoState, times |-> times, bl |-> bl,
          num_rows |-> n, rid |-> rid]
    ELSE [pc |-> "append", s |-> NoState, times |-> times, bl |-> <<>>,
          num_rows |-> 0, rid |-> 0]
\* The locals of a thread that has done rid of the n iterations of its loop
\* over bl; after the last one times.eval2_ns is taken and the thread goes
\* on to lock.lock()
Evaluating(times, bl, n, rid) ==
    IF rid < n
    THEN [pc |-> "eval", s |-> NoState, times |-> times, bl |-> bl,
          num_rows |-> n, rid |-> rid]
    ELSE [pc |-> "append", s |-> NoState, times |-> times, bl |-> <<>>,
          num_rows |-> 0, rid |-> 0]

\* Fixed-row queries, up to the query's own branch: the reply's prefix is
\* decoded (a failure is assert(0)), s is deleted, the rows are counted into
\* rows_returned and nrows_processed.  The two counter updates are
\* consecutive atomic additions; no thread reads the counters before join.
WorkerUnpackRows(w) ==
    /\ Running /\ wk[w].pc = "unpack"
    /\ opt.query # "flatbuf"
    /\ LET st == wk[w].s
           bl == FixedRowLocalBl(st.bl)
           nrows_server_processed == DecodeU64(st.bl, 3)
       IN IF opt.use_cls => PrefixDecodes(st.bl)
          THEN /\ rows_returned' = AtomicAdd(rows_returned, NumRows(bl))
               /\ nrows_processed' =
                    AtomicAdd(nrows_processed,
                              IF opt.use_cls THEN nrows_server_processed
                              ELSE NumRows(bl))
               /\ wk' = [wk EXCEPT ![w] =
                           IF opt.query = "a" /\ opt.use_cls
                           THEN Evaluating(TimesOf(st), bl, 1, 0)
                           ELSE Evaluating(TimesOf(st), bl, NumRows(bl), 0)]
               /\ UNCHANGED exit_status
          ELSE /\ exit_status' = "abort"
               /\ UNCHANGED <<rows_returned, nrows_processed, wk>>
    /\ UNCHANGED <<opt, projection, fastpath, objects, faults, pc,
                   target_objects, outstanding_ios, ready_ios, stop, timings,
                   result_count, aio, cb_notify, joined, oid, submits,
                   bi_execs, cb_order>>

\* Query a with use_cls: the matching-row count is decoded from bl and
\* added; the buffer::error of a failed decode is caught nowhere, so the
\* process is terminated.
WorkerCountA(w) ==
    /\ Running /\ wk[w].pc = "eval"
    /\ opt.query = "a" /\ opt.use_cls
    /\ LET matching_rows == DecodeU64(wk[w].bl, 1)
       IN IF matching_rows # -1
          THEN /\ result_count' = AtomicAdd(result_count, matching_rows)
               /\ wk' = [wk EXCEPT ![w] =
                           Evaluating(wk[w].times, wk[w].bl, 1, 1)]
               /\ UNCHANGED exit_status
          ELSE /\ exit_status' = "abort"
               /\ UNCHANGED <<result_count, wk>>
    /\ UNCHANGED <<opt, projection, fastpath, objects, faults, pc,
                   target_objects, outstanding_ios, ready_ios, stop, timings,
                   rows_returned, nrows_processed, aio, cb_notify, joined,
                   oid, submits, bi_execs, cb_order>>

\* One iteration of a row loop: the row at rid is tested and counted
\* (print_row and add_extra_row_cost change nothing that is modelled).
WorkerEvalRow(w) ==
    /\ Running /\ wk[w].pc = "eval"
    /\ opt.query \in FixedRowQueries /\ ~(opt.query = "a" /\ opt.use_cls)
    /\ result_count' =
         IF CountsRow(opt.query, RowAt(wk[w].bl, wk[w].rid))
         THEN AtomicAdd(result_count, 1) ELSE result_count
    /\ wk' = [wk EXCEPT ![w] = Evaluating(wk[w].times, wk[w].bl,
                                          wk[w].num_rows, wk[w].rid + 1)]
    /\ UNCHANGED <<opt, projection, fastpath, objects, faults, pc,
                   exit_status, target_objects, outstanding_ios, ready_ios,
                   stop, timings, rows_returned, nrows_processed, aio,
                   cb_notify, joined, oid, submits, bi_execs, cb_order>>

\* Query flatbuf, up to the loop over the flatbuffers: with use_cls the
\* prefix and the wrapped sequence are decoded and nrows_processed grows by
\* the server's count; otherwise the object is the sequence.
WorkerUnpackFb(w) ==
    /\ Running /\ wk[w].pc = "unpack"
    /\ opt.query = "flatbuf"
    /\ LET st == wk[w].s
       IN IF opt.use_cls => (PrefixDecodes(st.bl) /\ DecodesWrapped(st.bl, 4))
          THEN /\ nrows_processed' =
                    IF opt.use_cls
                    THEN AtomicAdd(nrows_processed, DecodeU64(st.bl, 3))
                    ELSE nrows_processed
               /\ wk' = [wk EXCEPT ![w] =
                           LET bls == IF opt.use_cls
                                      THEN DecodeWrapped(st.bl, 4) ELSE st.bl
                           IN Evaluating(TimesOf(st), bls, Len(bls), 0)]
               /\ UNCHANGED exit_status
          ELSE /\ exit_status' = "abort"
               /\ UNCHANGED <<nrows_processed, wk>>
    /\ UNCHANGED <<opt, projection, fastpath, objects, faults, pc,
                   target_objects, outstanding_ios, ready_ios, stop, timings,
                   result_count, rows_returned, aio, cb_notify, joined, oid,
                   submits, bi_execs, cb_order>>

\* One iteration of the loop over the flatbuffers: root.nrows is added to
\* rows_returned; with use_cls to result_count; otherwise to
\* nrows_processed and, after the projection when one is asked for, to
\* result_count.  A flatbuffer that does not decode is assert(0).
WorkerEvalFb(w) ==
    /\ Running /\ wk[w].pc = "eval"
    /\ opt.query = "flatbuf"
    /\ LET fb == wk[w].bl[wk[w].rid + 1]
       IN IF fb.t = "fb"
          THEN /\ rows_returned' = AtomicAdd(rows_returned, fb.nrows)
               /\ nrows_processed' =
                    IF opt.use_cls THEN nrows_processed
                    ELSE AtomicAdd(nrows_processed, fb.nrows)
               /\ result_count' =
                    IF opt.use_cls \/ ~projection
                    THEN AtomicAdd(result_count, fb.nrows)
                    ELSE AtomicAdd(result_count, TransformedRows(fb.nrows))
               /\ wk' = [wk EXCEPT ![w] =
                           Evaluating(wk[w].times, wk[w].bl, wk[w].num_rows,
                                      wk[w].rid + 1)]
               /\ UNCHANGED exit_status
          ELSE /\ exit_status' = "abort"
               /\ UNCHANGED <<rows_returned, nrows_processed, result_count,
                              wk>>
    /\ UNCHANGED <<opt, projection, fastpath, objects, faults, pc,
                   target_objects, outstanding_ios, ready_ios, stop, timings,
                   aio, cb_notify, joined, oid, submits, bi_execs, cb_order>>

\* ----------------------------------------------------------- specification
Next ==
    \/ MainSetup
    \/ MainBuildIndex
    \/ MainSanityCheck
    \/ MainSpawn
    \/ MainTake
    \/ MainWait
    \/ MainBreak
    \/ MainSubmit
    \/ MainDrain
    \/ MainStop
    \/ MainNotifyAll
    \/ MainJoin
    \/ MainReturn
    \/ MainSpuriousWake
    \/ CbNotify
    \/ \E r \in aio : CbComplete(r)
    \/ \E w \in DOMAIN wk : BiTake(w)
    \/ \E w \in DOMAIN wk : BiBreak(w)
    \/ \E w \in DOMAIN wk : BiExec(w)
    \/ \E w \in DOMAIN wk : WorkerExit(w)
    \/ \E w \in DOMAIN wk : WorkerWait(w)
    \/ \E w \in DOMAIN wk : WorkerPop(w)
    \/ \E w \in DOMAIN wk : WorkerSpuriousWake(w)
    \/ \E w \in DOMAIN wk : WorkerRelease(w)
    \/ \E w \in DOMAIN wk : WorkerNotify(w)
    \/ \E w \in DOMAIN wk : WorkerUnpackRows(w)
    \/ \E w \in DOMAIN wk : WorkerCountA(w)
    \/ \E w \in DOMAIN wk : WorkerEvalRow(w)
    \/ \E w \in DOMAIN wk : WorkerUnpackFb(w)
    \/ \E w \in DOMAIN wk : WorkerEvalFb(w)

Spec == Init /\ [][Next]_vars

\* Scheduling: every thread that can take a step eventually takes one, the
\* storage client eventually completes every request it holds.  A wait that
\* returns without a notification is possible but never promised.
MainStep ==
    \/ MainSetup \/ MainBuildIndex \/ MainSanityCheck \/ MainSpawn
    \/ MainTake \/ MainWait \/ MainBreak \/ MainSubmit \/ MainDrain
    \/ MainStop \/ MainNotifyAll \/ MainJoin \/ MainReturn
CbStep == CbNotify \/ \E r \in aio : CbComplete(r)
WorkerStep(w) ==
    /\ w \in DOMAIN wk
    /\ \/ BiTake(w) \/ BiBreak(w) \/ BiExec(w)
       \/ WorkerExit(w) \/ WorkerWait(w) \/ WorkerPop(w)
       \/ WorkerRelease(w) \/ WorkerNotify(w)
       \/ WorkerUnpackRows(w) \/ WorkerCountA(w) \/ WorkerEvalRow(w)
       \/ WorkerUnpackFb(w) \/ WorkerEvalFb(w)

FairSpec ==
    /\ FairInit /\ [][Next]_vars
    /\ WF_vars(MainStep)
    /\ WF_vars(CbStep)
    /\ WF_vars(\E w \in DOMAIN wk : WorkerStep(w))

\* Every run followed to its end with each thread scheduled fairly on its
\* own: main(), the storage client's callback thread, and every worker
\* (spurious wake-ups are possible but never owed to a waiting thread).
TermSpec ==
    /\ Init /\ [][Next]_vars
    /\ WF_vars(MainStep)
    /\ WF_vars(CbStep)
    /\ \A w \in 1..MaxWthreads : WF_vars(WorkerStep(w))

\* ================================================================== claims
QueryRunDone == pc = "done"
AllExited == \A w \in DOMAIN wk : wk[w].pc = "exited"

RECURSIVE SumOver(_, _)
\* f[0] + ... + f[n-1]
SumOver(f, n) == IF n = 0 THEN 0 ELSE f[n - 1] + SumOver(f, n - 1)

\* the number of rows of a stored object that pass query q's test
RECURSIVE PassingRows(_, _)
PassingRows(q, bl) ==
    IF bl = <<>> THEN 0
    ELSE (IF RowPasses(q, Head(bl).row) THEN 1 ELSE 0)
         + PassingRows(q, Tail(bl))

\* result_count of a run without pushdown over the stored objects
NoPushdownCount ==
    SumOver([o \in Oids |-> PassingRows(opt.query, objects[o])], opt.num_objs)

\* C1: a finished run of a fixed-row query ends with the result_count a run
\* without pushdown over the same objects ends with, whether or not it used
\* pushdown itself.
C1_PushdownSameCount ==
    (QueryRunDone /\ opt.query \in FixedRowQueries)
        => result_count = NoPushdownCount

\* C2: outstanding_ios never exceeds qdepth.
C2_InFlightBounded == outstanding_ios <= opt.qdepth

\* every slot is taken, two or more of them, and the dispatcher has counted
\* its last submission
C2_Witness ==
    /\ outstanding_ios = opt.qdepth /\ opt.qdepth >= 2
    /\ opt.wthreads >= 2 /\ pc # "relock"

\* C3: no object is submitted to the storage client twice, and when a query
\* run has finished every object was submitted exactly once.
C3_SubmittedOnce ==
    /\ \A o \in Oids : submits[o] <= 1
    /\ QueryRunDone => \A o \in Oids : submits[o] = 1

C3_Witness ==
    /\ QueryRunDone /\ opt.num_objs >= 2 /\ opt.dir = "rnd"
    /\ \A o \in Oids : submits[o] = 1

\* C4: a finished query run has one timing record per object; and a worker
\* has left its loop only when no completion is queued or still to come and
\* the timing of every completion it took is appended.
C4_TimingsComplete ==
    /\ QueryRunDone =>
         /\ Len(timings) = opt.num_objs
         /\ {timings[i].oid : i \in 1..Len(timings)} = Oids
    /\ \A w \in DOMAIN wk :
         (stop /\ wk[w].pc = "exited") =>
            /\ ready_ios = <<>> /\ aio = {}
            /\ Len(timings) + Cardinality({v \in DOMAIN wk :
                   wk[v].pc \in {"release", "notify", "unpack", "eval",
                                 "append"}}) = opt.num_objs

C4_Witness ==
    /\ QueryRunDone /\ opt.wthreads >= 2 /\ opt.qdepth >= 2
    /\ Len(timings) >= 2

\* the place of object o in the order the callbacks queued the completions
QueuedAt(o) == CHOOSE i \in 1..Len(cb_order) : cb_order[i] = o
TimingsFollowCompletions ==
    \A i, j \in 1..Len(timings) :
        i < j => QueuedAt(timings[i].oid) < QueuedAt(timings[j].oid)

ObjBl(o) == FixedRowLocalBl(Payload(o))
RECURSIVE CountedRows(_, _)
CountedRows(q, bl) ==
    IF bl = <<>> THEN 0
    ELSE (IF CountsRow(q, Head(bl).row) THEN 1 ELSE 0)
         + CountedRows(q, Tail(bl))
ObjFrames(o) ==
    IF opt.use_cls THEN DecodeWrapped(Payload(o), 4) ELSE Payload(o)
RECURSIVE TransformedFbRows(_)
TransformedFbRows(bls) ==
    IF bls = <<>> THEN 0
    ELSE TransformedRows(Head(bls).nrows) + TransformedFbRows(Tail(bls))
ObjRowsReturned(o) ==
    IF opt.query = "flatbuf" THEN FbRows(ObjFrames(o))
    ELSE NumRows(ObjBl(o))
ObjRowsProcessed(o) ==
    IF opt.use_cls THEN DecodeU64(Payload(o), 3) ELSE ObjRowsReturned(o)
ObjResultCount(o) ==
    IF opt.query = "flatbuf"
    THEN (IF opt.use_cls \/ ~projection THEN FbRows(ObjFrames(o))
          ELSE TransformedFbRows(ObjFrames(o)))
    ELSE IF opt.query = "a" /\ opt.use_cls THEN DecodeU64(ObjBl(o), 1)
    ELSE CountedRows(opt.query, ObjBl(o))
CountersAreSums ==
    /\ result_count = SumOver([o \in Oids |-> ObjResultCount(o)], opt.num_objs)
    /\ rows_returned =
         SumOver([o \in Oids |-> ObjRowsReturned(o)], opt.num_objs)
    /\ nrows_processed =
         SumOver([o \in Oids |-> ObjRowsProcessed(o)], opt.num_objs)
CountersGrow ==
    /\ result_count' >= result_count
    /\ rows_returned' >= rows_returned
    /\ nrows_processed' >= nrows_processed

\* C6: no step of the run makes result_count, rows_returned or
\* nrows_processed smaller, and when the run has finished each of them is the
\* sum over the objects of what that object adds to it.
C6_CountersAccumulate ==
    /\ [][CountersGrow]_vars
    /\ [](QueryRunDone => CountersAreSums)

\* two workers have added the rows of two objects
C6_Witness ==
    /\ QueryRunDone /\ opt.wthreads >= 2 /\ opt.num_objs >= 2
    /\ rows_returned >= 2 /\ result_count >= 1

\* the counters after one thread has evaluated obj.0 .. obj.(k-1) of a
\* raw-row query one after the other, as <<result_count, rows_returned,
\* nrows_processed>>
RECURSIVE SerialCounters(_)
SerialCounters(k) ==
    IF k = 0 THEN <<0, 0, 0>>
    ELSE LET c == SerialCounters(k - 1)
             bl == IF opt.use_cls THEN <<>> ELSE objects[k - 1]
             nrows == IF opt.use_cls THEN Len(objects[k - 1]) ELSE Len(bl)
         IN  <<c[1] + PassingRows(opt.query, bl), c[2] + Len(bl),
               c[3] + nrows>>

\* C7: a finished run of a raw-row query with extra_row_cost 0 ends with the
\* counters one thread evaluating the objects one after the other ends with,
\* whatever the number of workers.
C7_WorkersAgree ==
    (QueryRunDone /\ opt.query \in FixedRowQueries /\ opt.extra_row_cost = 0)
        => <<result_count, rows_returned, nrows_processed>>
             = SerialCounters(opt.num_objs)

C7_Witness ==
    /\ QueryRunDone /\ opt.query \in FixedRowQueries
    /\ opt.extra_row_cost = 0 /\ opt.wthreads >= 2 /\ opt.num_objs >= 2
    /\ cb_order = <<1, 0>> /\ result_count >= 1
    /\ result_count < rows_returned

\* a step of worker w from the top of its loop, taken with work_lock held
LoopTopStep(w) == AtLoopTop(w) /\ wk'[w].pc # wk[w].pc
WorkerLeavesOnlyWhenDone ==
    \A w \in DOMAIN wk :
        LoopTopStep(w) =>
            (wk'[w].pc = "exited" <=> (ready_ios = <<>> /\ stop))

\* C8: a worker leaves its loop exactly when, at the top of the loop with
\* work_lock held, ready_ios is empty and stop is set; and once stop is set
\* every worker leaves (or the process has ended).
C8_WorkerLeaves ==
    /\ [][WorkerLeavesOnlyWhenDone]_vars
    /\ (stop ~> (AllExited \/ ~Running))

\* a worker that waited on the empty queue has left after stop was set
C8_Witness ==
    /\ stop /\ AllExited /\ Running /\ opt.wthreads >= 2
    /\ cb_notify = 0 /\ Len(timings) = opt.num_objs

\* the table of valid configurations, query by query
ValidityTable ==
    CASE opt.query \in {"a", "b", "c"} ->
           opt.extended_price # 0 /\ ~opt.use_index
      [] opt.query = "d" ->
           /\ opt.order_key # 0 /\ opt.line_number # 0
           /\ (opt.use_index => opt.use_cls)
      [] opt.query = "e" ->
           /\ opt.ship_date_low # -9999 /\ opt.ship_date_high # -9999
           /\ opt.discount_low # -999900 /\ opt.discount_high # -999900
           /\ opt.quantity # 0 /\ ~opt.use_index
      [] opt.query = "f" -> opt.comment_regex # <<>> /\ ~opt.use_index
      [] opt.query = "fastpath" -> ~opt.use_index /\ ~opt.projection
      [] opt.query = "flatbuf" -> TRUE
      [] OTHER -> FALSE
NoStorageRequest ==
    /\ aio = {}
    /\ \A o \in DOMAIN submits : submits[o] = 0
    /\ \A o \in DOMAIN bi_execs : bi_execs[o] = 0

\* C9 as stated: with a configuration the table rejects, or an unknown query
\* tag, no read or exec is ever submitted to storage, whatever the flags,
\* --build-index included.
C9_RejectedBeforeIO == ~ValidityTable => NoStorageRequest

\* C9 as amended: without --build-index, with a configuration the table
\* rejects, or an unknown query tag, no read or exec is ever submitted to
\* storage.
C9_RejectedBeforeIOQueryRun ==
    (~opt.build_index /\ ~ValidityTable) => NoStorageRequest

\* the sanity checks have ended the process on a rejected configuration
C9_Witness ==
    /\ ~opt.build_index /\ ~ValidityTable /\ pc = "check"
    /\ exit_status \in {"abort", "exit1"} /\ opt.use_index

DispatchPhase ==
    pc \in {"spawn", "fill", "submit", "relock", "wait", "woken", "drain",
            "stop", "notify_all", "join", "done"}

\* C10: main is in or past its dispatch loop only with a configuration the
\* table of valid configurations accepts.
C10_DispatchOnlyIfValid == DispatchPhase => ValidityTable

\* query d with an index and pushdown is dispatching
C10_Witness ==
    /\ pc = "submit" /\ opt.query = "d" /\ opt.use_index /\ opt.use_cls
    /\ ValidityTable

\* the matching rows the server puts after the prefix of its replies,
\* summed over the objects
ServerMatchingRows ==
    SumOver([o \in Oids |-> PassingRows(opt.query, objects[o])], opt.num_objs)
\* nrows_server_processed of the replies, summed over the objects
ServerProcessedRows ==
    SumOver([o \in Oids |-> DecodeU64(QueryOpReply(opt.query, projection,
                                                   objects[o]), 3)],
            opt.num_objs)

\* C11: a run of query a with use_cls whose requests all succeed is not
\* ended by the evaluation of a reply, and when it has finished result_count
\* is the sum of the counts the server sent and nrows_processed the sum of
\* the nrows_server_processed it sent.
C11_ServerCountAdded ==
    (opt.query = "a" /\ opt.use_cls /\ DispatchPhase /\ faults = NoFaults)
        => /\ exit_status # "abort"
           /\ QueryRunDone => /\ result_count = ServerMatchingRows
                              /\ nrows_processed = ServerProcessedRows

\* C12: a finished run of a fixed-row query other than a with projection and
\* use_cls has counted into rows_returned and into result_count every
\* 8-byte row the server sent, and into nrows_processed the rows the server
\* processed.
C12_ProjectedRowsCounted ==
    (QueryRunDone /\ opt.query \in FixedRowQueries \ {"a", "fastpath"}
       /\ projection /\ opt.use_cls)
        => /\ rows_returned = ServerMatchingRows
           /\ result_count = ServerMatchingRows
           /\ nrows_processed = ServerProcessedRows

\* the range predicate of query e: ship_low <= ship_date < ship_high,
\* discount_low < discount < discount_high, quantity < max_quantity
SelectRange(row) ==
    /\ opt.ship_date_low <= row.ship_date
    /\ row.ship_date < opt.ship_date_high
    /\ opt.discount_low < row.discount
    /\ row.discount < opt.discount_high
    /\ row.quantity < opt.quantity
RECURSIVE RangeRows(_)
RangeRows(bl) ==
    IF bl = <<>> THEN 0
    ELSE (IF SelectRange(Head(bl).row) THEN 1 ELSE 0) + RangeRows(Tail(bl))
\* worker w runs one iteration of its row loop
RowStep(w) == wk[w].pc = "eval" /\ wk'[w] # wk[w]
RowStepCountsRange ==
    \A w \in DOMAIN wk :
        (opt.query = "e" /\ ~opt.use_cls /\ RowStep(w)) =>
            result_count' = result_count
                + (IF SelectRange(RowAt(wk[w].bl, wk[w].rid)) THEN 1 ELSE 0)

\* C13: without pushdown, each iteration of the row loop of query e counts
\* its row exactly when the row is in the range (lower ship date included,
\* upper ship date and both discount bounds excluded, quantity below the
\* bound), and a finished run has counted the rows in the range.
C13_RangeCounted ==
    /\ [][RowStepCountsRange]_vars
    /\ []((QueryRunDone /\ opt.query = "e" /\ ~opt.use_cls) =>
            result_count =
              SumOver([o \in Oids |-> RangeRows(objects[o])], opt.num_objs))

\* a row with ship_date = ship_date_high was passed over and a row with
\* ship_date = ship_date_low counted
C13_Witness ==
    /\ QueryRunDone /\ opt.query = "e" /\ ~opt.use_cls
    /\ objects[0] = <<RowChunk(RowB), RowChunk(RowA)>>
    /\ RowB.ship_date = opt.ship_date_high
    /\ RowA.ship_date = opt.ship_date_low
    /\ result_count = 1 /\ rows_returned = 2

\* worker w runs one iteration of its loop over the flatbuffers
FrameStep(w) == opt.query = "flatbuf" /\ wk[w].pc = "eval" /\ wk'[w] # wk[w]
\* the iteration is over the next flatbuffer of the object, and its row
\* count goes to each of the three counters
FrameStepAddsRows ==
    \A w \in DOMAIN wk :
        (FrameStep(w) /\ ~opt.use_cls /\ ~projection) =>
            LET n == wk[w].bl[wk[w].rid + 1].nrows
            IN /\ wk[w].bl = objects[wk[w].times.oid]
               /\ wk[w].rid < Len(wk[w].bl)
               /\ result_count' = result_count + n
               /\ rows_returned' = rows_returned + n
               /\ nrows_processed' = nrows_processed + n
               /\ \/ wk'[w].pc = "eval" /\ wk'[w].rid = wk[w].rid + 1
                                        /\ wk'[w].bl = wk[w].bl
                  \/ wk'[w].pc = "append" /\ wk[w].rid + 1 = Len(wk[w].bl)
\* the flatbuffers of an object are entered at the first one
FrameLoopStartsAtFirst ==
    \A w \in DOMAIN wk :
        (opt.query = "flatbuf" /\ wk[w].pc = "unpack" /\ wk'[w].pc = "eval")
            => wk'[w].rid = 0
FrameRowsTotal ==
    SumOver([o \in Oids |-> FbRows(objects[o])], opt.num_objs)

\* C14: for query flatbuf without use_cls and without projection, the
\* worker goes through the flatbuffers of an object from the first to the
\* last, one per iteration, adding each one's row count to result_count,
\* rows_returned and nrows_processed; a finished run ends with each counter
\* at the sum of the row counts of all flatbuffers.
C14_FramesSummed ==
    /\ [][FrameStepAddsRows /\ FrameLoopStartsAtFirst]_vars
    /\ []((QueryRunDone /\ opt.query = "flatbuf" /\ ~opt.use_cls
             /\ ~projection) =>
            /\ result_count = FrameRowsTotal
            /\ rows_returned = FrameRowsTotal
            /\ nrows_processed = FrameRowsTotal)

\* an object of two flatbuffers with different row counts was evaluated
C14_Witness ==
    /\ QueryRunDone /\ opt.query = "flatbuf" /\ ~opt.use_cls /\ ~projection
    /\ fastpath /\ objects[0] = <<FbChunk(2), FbChunk(1)>>
    /\ result_count = 3 /\ rows_returned = 3 /\ nrows_processed = 3

\* the objects whose completion has a negative return value
FailedCompletions == {o \in Oids : CompletionRet(o) < 0}
\* object o's record is on the completion queue, held by a worker or timed
Queued(o) == \E i \in 1..Len(ready_ios) : ready_ios[i].oid = o
HeldBy(w, o) == wk[w].s.oid = o \/ wk[w].times.oid = o
Timed(o) == \E i \in 1..Len(timings) : timings[i].oid = o
\* what the objects of S add to result_count, rows_returned, nrows_processed
\* in a run of query b without pushdown
RECURSIVE RowsOfQueryB(_)
RowsOfQueryB(S) ==
    IF S = {} THEN <<0, 0>>
    ELSE LET o == CHOOSE x \in S : TRUE
             rest == RowsOfQueryB(S \ {o})
         IN <<rest[1] + PassingRows("b", objects[o]),
              rest[2] + Len(objects[o])>>

\* C15: the record of a completion with a negative return value is never
\* queued, never held by a worker and never timed, and the counters hold
\* nothing of its object; once handle_cb has seen it the process is ended.
C15_FailedCompletionFatal ==
    /\ \A o \in FailedCompletions :
         /\ ~Queued(o) /\ ~Timed(o)
         /\ \A w \in DOMAIN wk : ~HeldBy(w, o)
         /\ \A i \in 1..Len(cb_order) : cb_order[i] # o
    /\ (FailedCompletions # {} /\ opt.query = "b" /\ ~opt.use_cls) =>
         LET others == RowsOfQueryB(Oids \ FailedCompletions)
         IN /\ result_count <= others[1]
            /\ rows_returned <= others[2]
            /\ nrows_processed <= others[2]
    /\ FailedCompletions # {} => ~QueryRunDone

\* handle_cb has ended the process on the failed completion of one object
\* after the other object was evaluated
C15_Witness ==
    /\ FailedCompletions # {} /\ exit_status = "abort"
    /\ \A o \in FailedCompletions : submits[o] = 1
    /\ \E r \in aio : r.oid \in FailedCompletions
    /\ Len(timings) >= 1 /\ rows_returned >= 1

\* the submissions main has counted into outstanding_ios
CountedSubmissions ==
    SumOver([o \in Oids |-> submits[o]], opt.num_objs)
        - (IF pc = "relock" THEN 1 ELSE 0)
\* the workers that have given back the slot of the record they took
Releasers ==
    {w \in DOMAIN wk : wk[w].pc \in {"notify", "unpack", "eval", "append"}}
ReleasedSlots == Len(timings) + Cardinality(Releasers)

\* C16 as stated: a request holds a dispatch slot only until its completion
\* callback has run, so outstanding_ios never exceeds the number of requests
\* the storage client still holds.
C16_SlotFreedByCallback == outstanding_ios <= Cardinality(aio)

\* C16 as amended: the slot of a request is given back by the worker that
\* takes its record off the completion queue, not by the callback:
\* outstanding_ios is the submissions counted less the records taken and
\* released by workers, handle_cb leaves it unchanged, and a record waiting
\* on ready_ios still holds its slot.
C16_SlotFreedByWorker ==
    (DispatchPhase /\ faults.submit = {}) =>
        /\ outstanding_ios = CountedSubmissions - ReleasedSlots
        /\ outstanding_ios >=
             Len(ready_ios) - (IF pc = "relock" THEN 1 ELSE 0)

\* the dispatcher waits for a slot although the storage client holds no
\* request: the completions are on ready_ios
C16_Witness ==
    /\ pc = "wait" /\ aio = {} /\ Len(ready_ios) = opt.qdepth
    /\ outstanding_ios = opt.qdepth /\ target_objects # <<>>


\* ---- C17 ----
\* requests handed to the storage client that outstanding_ios does not
\* count yet: main() is between aio_read / aio_exec and outstanding_ios++
UncountedSubmissions == IF pc = "relock" THEN 1 ELSE 0
\* C17 as the specification states it: the in-flight counter is never
\* negative
C17_NeverNegative == outstanding_ios >= 0
\* C17: main() increments outstanding_ios only after the submission, when
\* it has taken dispatch_lock again; a worker can release the slot first, so
\* the counter is never below -1, is negative only while a submitted
\* request is still uncounted, and is never negative at the loop test
C17_CountedAfterSubmit ==
    /\ outstanding_ios >= - UncountedSubmissions
    /\ Counted >= 0
    /\ (DispatchPhase /\ faults.submit = {}) =>
          outstanding_ios + UncountedSubmissions + ReleasedSlots
             = SumOver([o \in Oids |-> submits[o]], opt.num_objs)
C17_Witness == outstanding_ios = -1 /\ pc = "relock" /\ Len(timings) = 0


\* ---- C18 ----
\* every object's request was submitted and its completion was queued
AllCompleted ==
    /\ \A o \in Oids : submits[o] = 1
    /\ {cb_order[i] : i \in 1..Len(cb_order)} = Oids
\* C18: stop is true only in states where the target list is empty, every
\* object's request was submitted and has completed, and ready_ios holds no
\* record; the storage client then holds no request whose callback could
\* push, and ready_ios stays empty from the step that sets stop on.
C18_StopAfterAllTaken ==
    /\ (stop \/ pc = "stop") =>
          /\ target_objects = <<>>
          /\ AllCompleted
          /\ aio = {}
          /\ ready_ios = <<>>
          /\ Len(cb_order) = opt.num_objs
    /\ stop => pc \in {"notify_all", "join", "done"}
C18_Witness ==
    /\ stop /\ pc = "notify_all" /\ opt.num_objs >= 2
    /\ \E w \in DOMAIN wk : wk[w].pc \in {"unpack", "eval"}


\* ---- C19 ----
\* the places where the record of object o, or what is left of it, can be:
\* with the storage client, on ready_ios, held as s by a thread, kept as the
\* thread's local times and bl after delete s, in timings
AtClient(o) == Cardinality({r \in aio : r.oid = o})
OnQueue(o) == Cardinality({i \in 1..Len(ready_ios) : ready_ios[i].oid = o})
Holders(o) == {w \in DOMAIN wk : wk[w].s.oid = o}
Evaluators(o) == {w \in DOMAIN wk : wk[w].times.oid = o}
InTimings(o) == Cardinality({i \in 1..Len(timings) : timings[i].oid = o})
Places(o) ==
    AtClient(o) + OnQueue(o) + Cardinality(Holders(o))
        + Cardinality(Evaluators(o)) + InTimings(o)
\* 0 not dispatched, 1 Dispatched, 2 Completed, 3 Evaluated (taken off the
\* queue by a thread), 4 Destroyed (delete s; the thread goes on with its
\* local copy of the payload and then appends the timing)
Stage(o) ==
    IF InTimings(o) > 0 \/ Evaluators(o) # {} THEN 4
    ELSE IF Holders(o) # {} THEN 3
    ELSE IF OnQueue(o) > 0 THEN 2
    ELSE IF AtClient(o) > 0 THEN 1
    ELSE 0
StageNext(o) ==
    IF InTimings(o)' > 0 \/ Evaluators(o)' # {} THEN 4
    ELSE IF Holders(o)' # {} THEN 3
    ELSE IF OnQueue(o)' > 0 THEN 2
    ELSE IF AtClient(o)' > 0 THEN 1
    ELSE 0
\* a step moves no record backwards and skips no stage
StagesInOrder ==
    \A o \in Oids : StageNext(o) \in {Stage(o), Stage(o) + 1}
\* a thread holds at most one record, and a record or its payload is in
\* exactly one place once its request is with the storage client
OnePlace ==
    \A o \in Oids :
        /\ Places(o) <= 1
        /\ (submits[o] = 1 /\ SubmitRet(o) = 0) => Places(o) = 1
        /\ submits[o] = 0 => Places(o) = 0
\* C19: in a query run every record goes through Dispatched, Completed, Evaluated (taken by
\* a worker) and Destroyed in that order, one stage at a time and never
\* backwards; at any time a record is in one place only, so it is taken by
\* one worker, its payload is evaluated by that worker alone, and it is not
\* seen again once destroyed.
C19_RecordStagesOnce ==
    /\ [](DispatchPhase => OnePlace)
    /\ [][DispatchPhase => StagesInOrder]_vars
C19_Witness ==
    /\ DispatchPhase /\ opt.num_objs = 2
    /\ \E v, w \in DOMAIN wk : \E o, p \in Oids :
          /\ v # w /\ o # p
          /\ wk[v].pc = "eval" /\ Stage(o) = 4 /\ Evaluators(o) = {v}
          /\ wk[w].pc = "unpack" /\ Stage(p) = 3 /\ Holders(p) = {w}

\* ---- C20 ----
\* the normal end of a query run: both loops of main() left, stop set, every
\* thread out of its loop and joined
TerminatedNormally ==
    /\ QueryRunDone /\ stop /\ outstanding_ios = 0
    /\ AllExited /\ joined = opt.wthreads
\* C20: under fair scheduling, a query run in which no request fails ends
\* normally: the dispatcher leaves its loops, stop is set, and every worker
\* leaves its loop and is joined.
C20_AlwaysTerminates ==
    (pc = "fill" /\ faults = NoFaults) ~> TerminatedNormally
\* the same with the runs set aside in which the process is terminated by
\* the uncaught buffer::error of query a with use_cls: no thread is left
\* waiting on dispatch_cond or work_cond for a wake-up that never comes
C20_TerminatesUnlessAborted ==
    (pc = "fill" /\ faults = NoFaults) ~>
        (TerminatedNormally
           \/ (exit_status = "abort" /\ opt.query = "a" /\ opt.use_cls))


\* ---- C21 ----
\* the objects whose request main() has handed to the storage client
Submitted == {o \in Oids : submits[o] >= 1}
\* the object main() has popped and is about to submit, if any
NextSubmitted == IF Running /\ pc = "submit" THEN {oid} ELSE {}
\* C21: in a query run with dir = fwd the requests are submitted in
\* ascending index order (the submitted objects are always obj.0 .. obj.k-1
\* and the next one popped is obj.k); with dir = bwd they are submitted in
\* descending order (the submitted objects are the k highest and the next
\* one popped is the highest left).
C21_SubmissionOrder ==
    DispatchPhase =>
        LET k == Cardinality(Submitted)
        IN /\ opt.dir = "fwd" =>
                /\ Submitted = 0..(k - 1)
                /\ NextSubmitted \subseteq {k}
           /\ opt.dir = "bwd" =>
                /\ Submitted = (opt.num_objs - k)..(opt.num_objs - 1)
                /\ NextSubmitted \subseteq {opt.num_objs - 1 - k}
C21_Witness ==
    /\ opt.dir = "fwd" /\ opt.num_objs >= 2
    /\ Submitted = {0} /\ pc = "submit" /\ oid = 1


\* ---- C22 ----
\* the evaluation of object o's payload has ended: its request was
\* submitted and its record is neither with the storage client, nor on
\* ready_ios, nor held by a thread, nor in a thread's row or frame loop
EvaluationEnded(o) ==
    /\ submits[o] >= 1 /\ SubmitRet(o) = 0
    /\ AtClient(o) = 0 /\ OnQueue(o) = 0 /\ Holders(o) = {}
    /\ \A w \in Evaluators(o) : wk[w].pc = "append"
\* ... and the thread that evaluated it has been through lock.lock() and
\* timings.push_back(times)
Committed(o) == EvaluationEnded(o) /\ Evaluators(o) = {}
\* C22: in every state of a query run timings holds exactly one record for
\* each object whose evaluation has ended and been committed, and none for
\* any other object; its length is the number of those objects.
C22_TimingsMatchEvaluated ==
    DispatchPhase =>
        /\ Len(timings) = Cardinality({o \in Oids : Committed(o)})
        /\ \A o \in Oids : InTimings(o) = IF Committed(o) THEN 1 ELSE 0
        /\ \A i \in 1..Len(timings) : timings[i].oid \in Oids
\* one timing committed, one evaluation ended and not yet committed
C22_Witness ==
    /\ DispatchPhase /\ Len(timings) = 1
    /\ \E o \in Oids : EvaluationEnded(o) /\ ~Committed(o)
    /\ opt.wthreads >= 2


\* ---- C23 ----
\* the objects of the records on ready_ios, front first
QueuedOids == [i \in 1..Len(ready_ios) |-> ready_ios[i].oid]
\* the number of records the workers have taken off ready_ios
Taken == Len(cb_order) - Len(ready_ios)
\* C23: ready_ios is first-in first-out in the order of the callbacks'
\* pushes: at any time the records still queued are the most recently
\* pushed ones, in push order, so the records the workers have removed are
\* the earliest pushed and each removal takes the oldest record left;
\* this holds for any number of workers and whatever the dispatch order.
C23_QueueIsFifo ==
    DispatchPhase =>
        /\ Taken >= 0
        /\ QueuedOids = SubSeq(cb_order, Taken + 1, Len(cb_order))
        /\ \A i \in 1..Taken : Stage(cb_order[i]) >= 3
\* completions pushed against the dispatch order, the first pushed taken by
\* a worker and the second still queued
C23_Witness ==
    /\ opt.dir = "fwd" /\ opt.wthreads >= 2 /\ cb_order = <<1, 0>>
    /\ QueuedOids = <<0>> /\ Holders(1) # {}


\* ---- C24 ----
\* the requests submitted and not yet taken off ready_ios by a worker: with
\* the storage client or on the queue
SubmittedNotTaken == Cardinality(aio) + Len(ready_ios)
\* the workers between ready_ios.pop_front() and outstanding_ios--
Releasing == {w \in DOMAIN wk : wk[w].pc = "release"}
\* C24 as stated: the number of requests submitted and not yet taken is
\* outstanding_ios or outstanding_ios + 1, and never exceeds qdepth
C24_CounterOrOneMore ==
    /\ SubmittedNotTaken \in {outstanding_ios, outstanding_ios + 1}
    /\ SubmittedNotTaken <= opt.qdepth
\* C24 as amended: the number of requests submitted and not yet taken is
\* outstanding_ios, plus one while main() has submitted a request it has
\* not counted yet, minus one for every worker that has taken a record and
\* not yet decremented the counter; it never exceeds qdepth.
C24_CounterUpToPending ==
    /\ SubmittedNotTaken = outstanding_ios + UncountedSubmissions
                              - Cardinality(Releasing)
    /\ SubmittedNotTaken <= opt.qdepth
\* a worker has taken the only record and the counter still counts it
C24_Witness ==
    /\ SubmittedNotTaken = 0 /\ outstanding_ios = 1 /\ Releasing # {}
    /\ opt.wthreads >= 2


\* ---- C25 ----
\* the objects whose request was submitted and whose evaluation has not
\* ended: with the storage client, on ready_ios, or with a worker
NotFullyEvaluated ==
    {o \in Oids : submits[o] >= 1 /\ SubmitRet(o) = 0 /\ ~EvaluationEnded(o)}
\* the workers that have taken a record and not finished its evaluation
BusyWorkers ==
    {w \in DOMAIN wk : wk[w].pc \in {"release", "notify", "unpack", "eval"}}
\* C25: the number of records submitted and not yet fully evaluated is at
\* most qdepth plus the number of workers that hold a record, hence never
\* more than qdepth + wthreads.
C25_PipelineBounded ==
    DispatchPhase =>
        /\ Cardinality(NotFullyEvaluated)
              = SubmittedNotTaken + Cardinality(BusyWorkers)
        /\ Cardinality(NotFullyEvaluated)
              <= opt.qdepth + Cardinality(BusyWorkers)
        /\ Cardinality(NotFullyEvaluated) <= opt.qdepth + opt.wthreads
\* more records in the pipeline than qdepth: every worker evaluates one and
\* every slot is taken again
C25_Witness ==
    /\ DispatchPhase
    /\ Cardinality(NotFullyEvaluated) = opt.qdepth + opt.wthreads
    /\ Cardinality(BusyWorkers) = opt.wthreads
    /\ Cardinality(aio) = opt.qdepth

=============================================================================
